---- MODULE Spec2Model ----
(***************************************************************************)
(* pyvaru: rule evaluation (ValidationRule, RuleGroup), error aggregation  *)
(* (ValidationResult) and the Validator pass, including its use as a       *)
(* context manager.                                                        *)
(***************************************************************************)
EXTENDS Integers, Sequences, FiniteSets, TLC

VARIABLES
    validators,   \* Validator instances: instance id -> fields and position of the pass
    rule,         \* a rule object built on its own, possibly negated with ~
    twin,         \* a second object built with the same arguments, never negated
    env,          \* the object a deferred (lambda) target of rule / twin reads
    last,         \* what the latest rule.apply() did: a return value or an exception
    lastTwin,     \* what the latest twin.apply() did
    napply        \* number of apply() calls made on rule and twin

vars == <<validators, rule, twin, env, last, lastTwin, napply>>

----------------------------------------------------------------------------
(* Bounds of the model. *)

MaxRules == 2       \* longest list a get_rules() returns
MaxEntries == 2     \* longest "rules" list of a RuleGroup
MaxInvert == 2      \* most ~ applications on one rule object
MaxApply == 2       \* most apply() calls on one rule object
MaxCalls == 3       \* most validate() calls on one validator
MaxDepth == 3       \* most RuleGroups nested inside the entries of a RuleGroup

----------------------------------------------------------------------------
(* Python values.  A value is a record [t, v]: its type and its items      *)
(* (characters of a str, elements of a list, values of a dict in insertion *)
(* order, the number of an int, the instant of a datetime).  Character 0   *)
(* is a blank.                                                             *)

None == "None"

Str(s) == [t |-> "str", v |-> s]
List(s) == [t |-> "list", v |-> s]
IntVal(n) == [t |-> "int", v |-> <<n>>]
Dict(s) == [t |-> "dict", v |-> s]
Tuple(s) == [t |-> "tuple", v |-> s]
SetVal(s) == [t |-> "set", v |-> s]
DateTime(n) == [t |-> "datetime", v |-> <<n>>]
NoneValue == [t |-> "NoneType", v |-> <<>>]
MyObject == [t |-> "MyObject", v |-> <<>>]
MyModel(name) == [t |-> "MyModel", v |-> <<>>, name |-> name]

IsInstance(value, type) == value.t = type

HasLen(value) == value.t \in {"str", "list", "tuple", "dict", "set"}

RECURSIVE LStrip(_)
LStrip(s) == IF s # <<>> /\ Head(s) = 0 THEN LStrip(Tail(s)) ELSE s

RECURSIVE RStrip(_)
RStrip(s) ==
    IF s # <<>> /\ s[Len(s)] = 0 THEN RStrip(SubSeq(s, 1, Len(s) - 1)) ELSE s

Strip(s) == RStrip(LStrip(s))

ToSet(s) == {s[i] : i \in 1..Len(s)}

----------------------------------------------------------------------------
(* Results of a call: a returned value or a raised exception. *)

Ret(x) == [kind |-> "return", val |-> x]
Raise(e) == [kind |-> "raise", exc |-> e]
Returned(o) == o.kind = "return"
Raised(o) == o.kind = "raise"

Exc(type, msg) == [type |-> type, msg |-> msg]
ExcStr(e) == e.msg

AttributeError(obj, attr) ==
    Exc("AttributeError", "object has no attribute " \o attr)
NotImplementedError == Exc("NotImplementedError", "")
TypeErrorExc(msg) == Exc("TypeError", msg)

InvalidPairMsg ==
    "Provided rule configuration does not respect the format: (rule_class: ValidationRule, rule_config: dict)"
InvalidTypeMsg(got) == "Expected type ValidationRule, got " \o got \o " instead."
InvalidRuleGroupException(msg) == Exc("InvalidRuleGroupException", msg)

(* The exception classes raised here all derive from Exception. *)
ExceptionClasses ==
    {"AttributeError", "NotImplementedError", "TypeError", "RuntimeError",
     "InvalidRuleGroupException", "ValidationException"}

(* Mutant: "except AttributeError". *)
except_Exception_AttributeError(e) == e.type = "AttributeError"

(* Whether an "except Exception" clause handles the exception e. *)
except_Exception(e) == e.type \in ExceptionClasses

(* Python's ordering of two values: numbers and instants by value, strings *)
(* and sequences of one type item by item; any other pair of types does    *)
(* not support the comparison and raises TypeError.                        *)
Orderable(a, b) == a.t = b.t /\ a.t \in {"int", "datetime", "str", "list", "tuple"}

RECURSIVE SeqLess(_, _)
SeqLess(a, b) ==
    IF b = <<>> THEN FALSE
    ELSE IF a = <<>> THEN TRUE
    ELSE IF Head(a) # Head(b) THEN Head(a) < Head(b)
    ELSE SeqLess(Tail(a), Tail(b))

NotSupported(op) == Raise(TypeErrorExc(op \o " not supported between instances"))

Less(a, b) == IF Orderable(a, b) THEN Ret(SeqLess(a.v, b.v)) ELSE NotSupported("<")

LessEqual(a, b) ==
    IF Orderable(a, b) THEN Ret(~ SeqLess(b.v, a.v)) ELSE NotSupported("<=")

GreaterEqual(a, b) ==
    IF Orderable(a, b) THEN Ret(~ SeqLess(a.v, b.v)) ELSE NotSupported(">=")

(* re.match(pattern, string) is not None, for a pattern of literal         *)
(* characters: the string starts with them.                                *)
re_match(pattern, string) ==
    IF ~ IsInstance(string, "str")
    THEN Raise(TypeErrorExc("expected string or bytes-like object"))
    ELSE Ret(/\ Len(pattern.v) <= Len(string.v)
             /\ SubSeq(string.v, 1, Len(pattern.v)) = pattern.v)

----------------------------------------------------------------------------
(* Rule objects.  Every rule object carries the same fields; "rules" and   *)
(* "failed_rule" are used by RuleGroup, "valid_type" by TypeRule and       *)
(* "min_length" by MinLengthRule.  "inverted" counts the wrappers that ~   *)
(* has put around the object's apply.                                      *)

RuleClasses ==
    {"ValidationRule", "RuleGroup", "TypeRule", "FullStringRule",
     "MinValueRule", "MaxValueRule", "MinLengthRule", "MaxLengthRule",
     "IntervalRule", "PatternRule", "PastDateRule", "FutureDateRule",
     "UniqueItemsRule", "RuleA"}

NoRule == [cls |-> "NoneType"]

IsValidationRule(x) == x.cls \in RuleClasses

IsSubclassOfValidationRule(c) == c \in RuleClasses

(* A target given to a rule: a value, or a zero-argument function reading  *)
(* the validated object ("data") or its attribute "name".  "calls" counts  *)
(* the invocations of the function.                                        *)
Eager(value) == [fn |-> FALSE, val |-> value]
Deferred(path) == [fn |-> TRUE, path |-> path, calls |-> 0]

GetAttr(obj, attr) ==
    IF attr \in DOMAIN obj THEN Ret(obj[attr]) ELSE Raise(AttributeError(obj, attr))

ReadPath(path, data) == IF path = "data" THEN Ret(data) ELSE GetAttr(data, path)

apply_to(r, data) ==
    IF r.apply_to.fn THEN ReadPath(r.apply_to.path, data) ELSE Ret(r.apply_to.val)

(* The object after a read of its apply_to property: "if callable(...)"    *)
(* has invoked the function.                                               *)
CalledTimes(r, n) == IF r.apply_to.fn THEN [r EXCEPT !.apply_to.calls = @ + n] ELSE r

Called(r) == CalledTimes(r, 1)

default_error_message(c) ==
    CASE c = "TypeRule" -> "Object is not an instance of the expected type."
      [] c = "FullStringRule" -> "String is empty."
      [] c = "MinValueRule" -> "Value is smaller than expected one."
      [] c = "MaxValueRule" -> "Value is greater than expected one."
      [] c = "MinLengthRule" -> "Length is smaller than expected one."
      [] c = "MaxLengthRule" -> "Length is greater than expected one."
      [] c = "IntervalRule" -> "Value is not in interval."
      [] c = "PatternRule" -> "Value does not match expected pattern."
      [] c = "PastDateRule" -> "Not a past date."
      [] c = "FutureDateRule" -> "Not a future date."
      [] c = "UniqueItemsRule" -> "List contains duplicated items."
      [] OTHER -> "Data is invalid."

(* The class attribute type_error_message of the rules that define one. *)
type_error_message(c) ==
    CASE c \in {"FullStringRule", "PatternRule"} -> "Not a string."
      [] c \in {"PastDateRule", "FutureDateRule"} -> "Not a date object."
      [] c = "UniqueItemsRule" -> "Not an iterable object."
      [] OTHER -> None

Truthy(s) == s # None /\ s # ""

BaseGetErrorMessage(r) ==
    IF Truthy(r.custom_error_message)
    THEN r.custom_error_message
    ELSE default_error_message(r.cls)

(* Mutant: RuleGroup does not override get_error_message. *)
get_error_message_Own(r) == BaseGetErrorMessage(r)

(* Mutant: the group asks its failed child for the child's own message. *)
get_error_message_OneLevel(r) ==
    IF r.cls = "RuleGroup" /\ IsValidationRule(r.failed_rule)
    THEN BaseGetErrorMessage(r.failed_rule)
    ELSE BaseGetErrorMessage(r)

RECURSIVE get_error_message(_)
get_error_message(r) ==
    IF r.cls = "RuleGroup" /\ IsValidationRule(r.failed_rule)
    THEN get_error_message(r.failed_rule)
    ELSE BaseGetErrorMessage(r)

(* Constructors: keyword arguments are a record; a missing required or an  *)
(* unknown keyword, or an abstract class, raises TypeError.                *)
RequiredArgs(c) ==
    {"apply_to", "label"} \cup
    (CASE c = "TypeRule" -> {"valid_type"}
       [] c = "MinValueRule" -> {"min_value"}
       [] c = "MaxValueRule" -> {"max_value"}
       [] c = "MinLengthRule" -> {"min_length"}
       [] c = "MaxLengthRule" -> {"max_length"}
       [] c = "IntervalRule" -> {"interval_from", "interval_to"}
       [] c = "PatternRule" -> {"pattern"}
       [] c = "RuleGroup" -> {"rules"}
       [] OTHER -> {})

OptionalArgs(c) ==
    {"error_message", "stop_if_invalid"} \cup
    (CASE c = "PatternRule" -> {"flags"}
       [] c \in {"PastDateRule", "FutureDateRule"} -> {"reference_date"}
       [] OTHER -> {})

(* datetime.now() where a date rule is constructed without reference_date. *)
Now == DateTime(2)

Opt(config, key, default) == IF key \in DOMAIN config THEN config[key] ELSE default

NewRule(c, config) ==
    [cls |-> c,
     apply_to |-> config.apply_to,
     label |-> config.label,
     custom_error_message |-> Opt(config, "error_message", None),
     stop_if_invalid |-> Opt(config, "stop_if_invalid", FALSE),
     inverted |-> 0,
     valid_type |-> Opt(config, "valid_type", None),
     min_value |-> Opt(config, "min_value", None),
     max_value |-> Opt(config, "max_value", None),
     min_length |-> Opt(config, "min_length", 0),
     max_length |-> Opt(config, "max_length", 0),
     interval_from |-> Opt(config, "interval_from", None),
     interval_to |-> Opt(config, "interval_to", None),
     pattern |-> Opt(config, "pattern", None),
     reference_date |-> Opt(config, "reference_date", Now),
     rules |-> Opt(config, "rules", <<>>),
     failed_rule |-> NoRule,
     type_error_occurred |-> FALSE]

Instantiate(c, config) ==
    IF c = "ValidationRule"
    THEN Raise(TypeErrorExc("Can't instantiate abstract class ValidationRule"))
    ELSE IF ~ (RequiredArgs(c) \subseteq DOMAIN config)
    THEN Raise(TypeErrorExc("__init__() missing required positional argument"))
    ELSE IF ~ (DOMAIN config \subseteq RequiredArgs(c) \cup OptionalArgs(c))
    THEN Raise(TypeErrorExc("__init__() got an unexpected keyword argument"))
    ELSE Ret(NewRule(c, config))

Merge(a, b) ==
    [k \in DOMAIN a \cup DOMAIN b |-> IF k \in DOMAIN b THEN b[k] ELSE a[k]]

(* ~rule: wraps the object's apply and returns the same object. *)
Invert(r) == [r EXCEPT !.inverted = @ + 1]

----------------------------------------------------------------------------
(* Entries of a RuleGroup's "rules" list. *)

ClassEntry(c) == [form |-> "class", cls |-> c]
NoneEntry == [form |-> "None"]
ValueEntry == [form |-> "value"]
DictItem(opts) == [form |-> "dict", opts |-> opts]
SeqEntry(items) == [form |-> "seq", items |-> items]

EntryStr(entry) ==
    CASE entry.form = "None" -> "None"
      [] entry.form = "class" -> "class " \o entry.cls
      [] OTHER -> entry.form

RuleConfig(group, target) == [apply_to |-> Eager(target), label |-> group.label]

CheckEntry(entry) ==
    IF entry.form = "seq"
    THEN IF Len(entry.items) # 2
         THEN Raise(InvalidRuleGroupException(InvalidPairMsg))
         ELSE IF entry.items[1].form # "class"
         THEN Raise(TypeErrorExc("issubclass() arg 1 must be a class"))
         ELSE IF ~ IsSubclassOfValidationRule(entry.items[1].cls)
                 \/ entry.items[2].form # "dict"
         THEN Raise(InvalidRuleGroupException(InvalidPairMsg))
         ELSE Ret([cls |-> entry.items[1].cls, opts |-> entry.items[2].opts])
    ELSE IF entry.form = "None"
    THEN Raise(InvalidRuleGroupException(InvalidTypeMsg(EntryStr(entry))))
    ELSE IF entry.form # "class"
    THEN Raise(TypeErrorExc("issubclass() arg 1 must be a class"))
    ELSE IF ~ IsSubclassOfValidationRule(entry.cls)
    THEN Raise(InvalidRuleGroupException(InvalidTypeMsg(EntryStr(entry))))
    ELSE Ret([cls |-> entry.cls, opts |-> <<>>])

_get_configured_rule(group, entry, data) ==
    LET target == apply_to(group, data) IN
    IF Raised(target) THEN target
    ELSE LET checked == CheckEntry(entry) IN
         IF Raised(checked) THEN checked
         ELSE Instantiate(checked.val.cls,
                          Merge(RuleConfig(group, target.val), checked.val.opts))

----------------------------------------------------------------------------
(* apply().  An application yields what the call did and the object as the *)
(* call left it: [out |-> Ret(bool) or Raise(exception), rule |-> object]. *)

Did(out, r) == [out |-> out, rule |-> r]

TypeErrorOccurred(r) == Did(Ret(FALSE), [r EXCEPT !.type_error_occurred = TRUE])

TypeRuleApply(r, data) ==
    LET t == apply_to(r, data)
        s == Called(r)
    IN  IF Raised(t) THEN Did(t, s) ELSE Did(Ret(IsInstance(t.val, s.valid_type)), s)

FullStringRuleApply(r, data) ==
    LET t == apply_to(r, data)
        s == Called(r)
    IN  IF Raised(t) THEN Did(t, s)
        ELSE IF IsInstance(t.val, "str") THEN Did(Ret(Len(Strip(t.val.v)) > 0), s)
        ELSE TypeErrorOccurred(s)

MinLengthRuleApply(r, data) ==
    LET t == apply_to(r, data)
        s == Called(r)
    IN  IF Raised(t) THEN Did(t, s)
        ELSE IF HasLen(t.val) THEN Did(Ret(Len(t.val.v) >= s.min_length), s)
        ELSE TypeErrorOccurred(s)

MaxLengthRuleApply(r, data) ==
    LET t == apply_to(r, data)
        s == Called(r)
    IN  IF Raised(t) THEN Did(t, s)
        ELSE IF HasLen(t.val) THEN Did(Ret(Len(t.val.v) <= s.max_length), s)
        ELSE TypeErrorOccurred(s)

(* Mutant: no "except TypeError" around the comparison. *)
except_TypeError_Missing(compared, r) == Did(compared, r)

(* "try: return <comparison> except TypeError: ...; return False" *)
except_TypeError(compared, r) ==
    IF Raised(compared) /\ compared.exc.type = "TypeError"
    THEN TypeErrorOccurred(r)
    ELSE Did(compared, r)

MinValueRuleApply(r, data) ==
    LET t == apply_to(r, data)
        s == Called(r)
    IN  IF Raised(t) THEN Did(t, s)
        ELSE except_TypeError(GreaterEqual(t.val, s.min_value), s)

MaxValueRuleApply(r, data) ==
    LET t == apply_to(r, data)
        s == Called(r)
    IN  IF Raised(t) THEN Did(t, s)
        ELSE except_TypeError(LessEqual(t.val, s.max_value), s)

(* interval_from <= apply_to <= interval_to: the second comparison is made *)
(* only when the first is true.                                            *)
IntervalRuleApply(r, data) ==
    LET t == apply_to(r, data)
        s == Called(r)
    IN  IF Raised(t) THEN Did(t, s)
        ELSE LET lower == LessEqual(s.interval_from, t.val) IN
             IF Raised(lower) \/ ~ lower.val THEN except_TypeError(lower, s)
             ELSE except_TypeError(LessEqual(t.val, s.interval_to), s)

PatternRuleApply(r, data) ==
    LET t == apply_to(r, data)
        s == Called(r)
    IN  IF Raised(t) THEN Did(t, s)
        ELSE except_TypeError(re_match(s.pattern, t.val), s)

PastDateRuleApply(r, data) ==
    LET t == apply_to(r, data)
        s == Called(r)
    IN  IF Raised(t) THEN Did(t, s)
        ELSE except_TypeError(Less(t.val, s.reference_date), s)

FutureDateRuleApply(r, data) ==
    LET t == apply_to(r, data)
        s == Called(r)
    IN  IF Raised(t) THEN Did(t, s)
        ELSE except_TypeError(Less(s.reference_date, t.val), s)

_dictionary_items_are_unique(values) ==
    \A index \in 1..(Len(values) - 1) : values[index] # values[index + 1]

(* set(self.apply_to) raises TypeError before len(self.apply_to) is read. *)
_collection_items_are_unique(r, value) ==
    IF HasLen(value)
    THEN Did(Ret(Cardinality(ToSet(value.v)) = Len(value.v)), CalledTimes(r, 2))
    ELSE TypeErrorOccurred(Called(r))

(* Each "self.apply_to" of apply() and of its helpers is one read. *)
UniqueItemsRuleApply(r, data) ==
    LET t == apply_to(r, data) IN
    IF Raised(t) THEN Did(t, Called(r))
    ELSE IF IsInstance(t.val, "dict")
    THEN Did(Ret(_dictionary_items_are_unique(t.val.v)), CalledTimes(r, 2))
    ELSE IF IsInstance(t.val, "set") THEN Did(Ret(TRUE), CalledTimes(r, 2))
    ELSE _collection_items_are_unique(CalledTimes(r, 2), t.val)

RuleAApply(r, data) == Did(Raise(NotImplementedError), r)

LeafApply(r, data) ==
    CASE r.cls = "TypeRule" -> TypeRuleApply(r, data)
      [] r.cls = "FullStringRule" -> FullStringRuleApply(r, data)
      [] r.cls = "MinValueRule" -> MinValueRuleApply(r, data)
      [] r.cls = "MaxValueRule" -> MaxValueRuleApply(r, data)
      [] r.cls = "MinLengthRule" -> MinLengthRuleApply(r, data)
      [] r.cls = "MaxLengthRule" -> MaxLengthRuleApply(r, data)
      [] r.cls = "IntervalRule" -> IntervalRuleApply(r, data)
      [] r.cls = "PatternRule" -> PatternRuleApply(r, data)
      [] r.cls = "PastDateRule" -> PastDateRuleApply(r, data)
      [] r.cls = "FutureDateRule" -> FutureDateRuleApply(r, data)
      [] r.cls = "UniqueItemsRule" -> UniqueItemsRuleApply(r, data)
      [] OTHER -> RuleAApply(r, data)

RECURSIVE Apply(_, _)

(* Mutant: only a false return of the child ends the loop. *)
ChildFailed_OnlyFalse(a) == Returned(a.out) /\ ~ a.out.val

(* What RuleGroup.apply does with a child's application. *)
ChildFailed(a) == Raised(a.out) \/ ~ a.out.val

RECURSIVE RuleGroupLoop(_, _, _)
RuleGroupLoop(group, data, i) ==
    IF i > Len(group.rules) THEN Did(Ret(TRUE), group)
    ELSE LET child == _get_configured_rule(group, group.rules[i], data)
             self == Called(group)
         IN  IF Raised(child) THEN Did(child, self)
             ELSE LET a == Apply(child.val, data) IN
                  IF ChildFailed(a)
                  THEN Did(Ret(FALSE), [self EXCEPT !.failed_rule = a.rule])
                  ELSE RuleGroupLoop(self, data, i + 1)

RuleGroupApply(group, data) == RuleGroupLoop(group, data, 1)

ClassApply(r, data) ==
    IF r.cls = "RuleGroup" THEN RuleGroupApply(r, data) ELSE LeafApply(r, data)

(* Mutant: the wrapper returns apply() as it is. *)
decorated_function_Plain(a) == a

(* One wrapper of __invert__: "return not apply()". *)
decorated_function(a) ==
    IF Raised(a.out) THEN a ELSE Did(Ret(~ a.out.val), a.rule)

RECURSIVE WrappedApply(_, _, _)
WrappedApply(r, data, k) ==
    IF k = 0 THEN ClassApply(r, data)
    ELSE decorated_function(WrappedApply(r, data, k - 1))

Apply(r, data) == WrappedApply(r, data, r.inverted)

----------------------------------------------------------------------------
(* ValidationResult: errors is a dict, kept as the sequence of its items   *)
(* [key, msgs] in insertion order.                                         *)

HasKey(errors, key) == \E i \in 1..Len(errors) : errors[i].key = key

Get(errors, key) ==
    IF HasKey(errors, key)
    THEN errors[CHOOSE i \in 1..Len(errors) : errors[i].key = key].msgs
    ELSE <<>>

Keys(errors) == [i \in 1..Len(errors) |-> errors[i].key]

(* Mutant: a new label is put before the labels already there. *)
SetDefault_Front(errors, key) ==
    IF HasKey(errors, key) THEN errors ELSE <<[key |-> key, msgs |-> <<>>]>> \o errors

SetDefault(errors, key) ==
    IF HasKey(errors, key) THEN errors ELSE Append(errors, [key |-> key, msgs |-> <<>>])

(* Mutant: the message is put in front of the label's list. *)
AppendTo_Prepends(errors, key, msg) ==
    [i \in 1..Len(errors) |->
        IF errors[i].key = key
        THEN [errors[i] EXCEPT !.msgs = <<msg>> \o @]
        ELSE errors[i]]

AppendTo(errors, key, msg) ==
    [i \in 1..Len(errors) |->
        IF errors[i].key = key
        THEN [errors[i] EXCEPT !.msgs = Append(@, msg)]
        ELSE errors[i]]

annotate_rule_violation(errors, r) ==
    AppendTo(SetDefault(errors, r.label), r.label, get_error_message(r))

(* Mutant: every exception is filed under the sentinel. *)
error_key_Sentinel(r) == "get_rules"

(* Mutant: an exception without a rule is filed under str(None). *)
error_key_OfNone(r) == IF IsValidationRule(r) THEN r.label ELSE "None"

error_key(r) == IF IsValidationRule(r) THEN r.label ELSE "get_rules"

annotate_exception(errors, exception, r) ==
    AppendTo(SetDefault(errors, error_key(r)), error_key(r), ExcStr(exception))

is_successful(errors) == Len(errors) = 0

ValidationException(errors) ==
    [type |-> "ValidationException", msg |-> "Data did not validate.",
     validation_result |-> errors]

(* No apply() has been made on the object as it is now. *)
NotCalled == [kind |-> "none"]

NoExc == Exc("None", "")

----------------------------------------------------------------------------
(* Validator.  get_rules() of a concrete validator is a list of rule       *)
(* constructions; each names the expression given as the rule's target:    *)
(* a constant, self.data or self.data.name, read while the list is built,  *)
(* or a lambda over one of them, read when the rule is applied.            *)

TargetExprs ==
    {"''", "self.data", "self.data.name", "lambda: self.data", "lambda: self.data.name"}

(* Mutant: a lambda is called where the rule is constructed. *)
EvalTarget_CallsLambda(expr, data) ==
    CASE expr = "''" -> Ret(Eager(Str(<<>>)))
      [] expr \in {"self.data", "lambda: self.data"} -> Ret(Eager(data))
      [] OTHER ->
            (LET a == GetAttr(data, "name") IN
             IF Raised(a) THEN a ELSE Ret(Eager(a.val)))

EvalTarget(expr, data) ==
    CASE expr = "''" -> Ret(Eager(Str(<<>>)))
      [] expr = "self.data" -> Ret(Eager(data))
      [] expr = "self.data.name" ->
            (LET a == GetAttr(data, "name") IN
             IF Raised(a) THEN a ELSE Ret(Eager(a.val)))
      [] expr = "lambda: self.data" -> Ret(Deferred("data"))
      [] OTHER -> Ret(Deferred("name"))

Construct(template, data) ==
    LET t == EvalTarget(template.target, data) IN
    IF Raised(t) THEN t
    ELSE LET made == Instantiate(template.cls,
                         Merge([apply_to |-> t.val, label |-> template.label],
                               template.opts)) IN
         IF Raised(made) \/ ~ template.negated THEN made ELSE Ret(Invert(made.val))

RECURSIVE BuildRules(_, _, _)
BuildRules(templates, data, built) ==
    IF Len(built) = Len(templates) THEN Ret(built)
    ELSE LET made == Construct(templates[Len(built) + 1], data) IN
         IF Raised(made) THEN made
         ELSE BuildRules(templates, data, Append(built, made.val))

get_rules(v) == BuildRules(v.templates, v.data, <<>>)

(* Mutant: every violation ends the loop. *)
Breaks_Always(r) == TRUE

(* Mutant: stop_if_invalid is ignored. *)
Breaks_Never(r) == FALSE

(* "if rule.stop_if_invalid: break" after a violation. *)
Breaks(r) == r.stop_if_invalid

(* Mutant: "if rule.apply()" in place of "if not rule.apply()". *)
ValidateRule_WithoutNot(v) ==
    LET a == Apply(v.rules[v.idx], v.data)
        seen == [v EXCEPT !.rules[v.idx] = a.rule,
                          !.applied = Append(@, v.idx),
                          !.idx = @ + 1]
    IN  IF Raised(a.out) /\ ~ except_Exception(a.out.exc)
        THEN [seen EXCEPT !.exc = a.out.exc, !.pc = "propagated"]
        ELSE IF Raised(a.out)
        THEN [seen EXCEPT !.errors = annotate_exception(@, a.out.exc, a.rule)]
        ELSE IF a.out.val
        THEN [seen EXCEPT !.errors = annotate_rule_violation(@, a.rule),
                          !.halted = a.rule.stop_if_invalid]
        ELSE seen

(* Mutant: an exception of a stop_if_invalid rule ends the loop. *)
ValidateRule_BreaksOnRaise(v) ==
    LET a == Apply(v.rules[v.idx], v.data)
        seen == [v EXCEPT !.rules[v.idx] = a.rule,
                          !.applied = Append(@, v.idx),
                          !.idx = @ + 1]
    IN  IF Raised(a.out) /\ ~ except_Exception(a.out.exc)
        THEN [seen EXCEPT !.exc = a.out.exc, !.pc = "propagated"]
        ELSE IF Raised(a.out)
        THEN [seen EXCEPT !.errors = annotate_exception(@, a.out.exc, a.rule),
                          !.halted = a.rule.stop_if_invalid]
        ELSE IF ~ a.out.val
        THEN [seen EXCEPT !.errors = annotate_rule_violation(@, a.rule),
                          !.halted = a.rule.stop_if_invalid]
        ELSE seen

(* What the body of the for loop of validate() does with a, the           *)
(* application of the rule at v.idx.                                       *)
ValidateOutcome(v, a) ==
    LET seen == [v EXCEPT !.rules[v.idx] = a.rule,
                          !.applied = Append(@, v.idx),
                          !.idx = @ + 1]
    IN  IF Raised(a.out) /\ ~ except_Exception(a.out.exc)
        THEN [seen EXCEPT !.exc = a.out.exc, !.pc = "propagated"]
        ELSE IF Raised(a.out)
        THEN [seen EXCEPT !.errors = annotate_exception(@, a.out.exc, a.rule)]
        ELSE IF ~ a.out.val
        THEN [seen EXCEPT !.errors = annotate_rule_violation(@, a.rule),
                          !.halted = Breaks(a.rule)]
        ELSE seen

(* The body of the for loop of validate(), on the rule at v.idx. *)
ValidateRule(v) == ValidateOutcome(v, Apply(v.rules[v.idx], v.data))

(* The call of get_rules() that opens the for loop. *)
ValidateGetRules(v) ==
    LET got == get_rules(v) IN
    IF Raised(got) /\ ~ except_Exception(got.exc)
    THEN [v EXCEPT !.exc = got.exc, !.pc = "propagated", !.ngetrules = @ + 1]
    ELSE IF Raised(got)
    THEN [v EXCEPT !.ngetrules = @ + 1,
                   !.errors = annotate_exception(@, got.exc, NoRule),
                   !.pc = "returned"]
    ELSE [v EXCEPT !.rules = got.val, !.idx = 1, !.pc = "loop", !.ngetrules = @ + 1]

(* Mutant: the validator keeps one result object and fills it again. *)
NewResult_Kept(v) == IF v.rid = 0 THEN [v EXCEPT !.rid = 1, !.errors = <<>>] ELSE v

(* "result = ValidationResult()": a new object, "rid" its identity, whose  *)
(* errors are "errors or {}" of no argument.                               *)
NewResult(v) == [v EXCEPT !.rid = v.ncalls + 1, !.errors = <<>>]

(* Mutant: __exit__ returns True. *)
ExitReturn_True == TRUE

(* What __exit__ returns: a true value would suppress the block's exception. *)
ExitReturn == FALSE

(* Mutant: __enter__ returns self without looking at the result. *)
EnterValidator_NeverRaises(v, self) == [v EXCEPT !.yielded = self, !.pc = "block"]

EnterValidator(v, self) ==
    IF ~ is_successful(v.errors)
    THEN [v EXCEPT !.exc = ValidationException(v.errors), !.pc = "raised"]
    ELSE [v EXCEPT !.yielded = self, !.pc = "block"]

ExitValidator(v) ==
    IF v.blockExc # NoExc /\ ~ ExitReturn
    THEN [v EXCEPT !.exc = v.blockExc, !.pc = "raised"]
    ELSE [v EXCEPT !.pc = "left"]

----------------------------------------------------------------------------
(* Inputs of the specifications. *)

CUSTOM_MESSAGE == "custom message"

Instances == {"v1", "v2"}

DataModels ==
    {Dict(<<>>), MyModel(Str(<<1>>)), MyModel(Str(<<0>>)), MyModel(IntVal(3))}

Template(c, target, label, opts, negated) ==
    [cls |-> c, target |-> target, label |-> label, opts |-> opts, negated |-> negated]

Options(stop, msg) ==
    IF msg = None THEN [stop_if_invalid |-> stop]
    ELSE [stop_if_invalid |-> stop, error_message |-> msg]

Templates ==
    {Template("TypeRule", "self.data", "data",
              Merge(Options(stop, msg), [valid_type |-> "MyModel"]), FALSE) :
        stop \in BOOLEAN, msg \in {None, CUSTOM_MESSAGE}}
    \cup
    {Template("FullStringRule", target, "name", Options(stop, msg), FALSE) :
        target \in {"self.data.name", "lambda: self.data.name"},
        stop \in BOOLEAN, msg \in {None, CUSTOM_MESSAGE}}
    \cup
    {Template("RuleA", "''", label, Options(stop, None), FALSE) :
        label \in {"data", "name"}, stop \in BOOLEAN}

RECURSIVE SeqsUpTo(_, _)
SeqsUpTo(S, n) ==
    IF n = 0 THEN {<<>>}
    ELSE LET shorter == SeqsUpTo(S, n - 1) IN
         shorter \cup {Append(q, x) : q \in shorter, x \in S}

NewValidator(data, templates, mode) ==
    [data |-> data, templates |-> templates, mode |-> mode, pc |-> "new",
     rules |-> <<>>, idx |-> 0, halted |-> FALSE, errors |-> <<>>,
     applied |-> <<>>, ncalls |-> 0, nblock |-> 0, blockExc |-> NoExc,
     exc |-> NoExc, yielded |-> None, rid |-> 0, returned |-> <<>>,
     ngetrules |-> 0, pending |-> NotCalled]

(* An instance that no specification constructs. *)
Unused == [NewValidator(Dict(<<>>), <<>>, "validate") EXCEPT !.pc = "unused"]

----------------------------------------------------------------------------
(* The validator pass, one step at a time. *)

(* validate() is entered, directly or from __enter__: result = ValidationResult() *)
Validate(i) ==
    /\ validators[i].pc = "new"
    /\ validators' = [validators EXCEPT ![i] =
                        [NewResult(@) EXCEPT !.ncalls = @ + 1, !.pc = "get_rules"]]
    /\ UNCHANGED <<rule, twin, env, last, lastTwin, napply>>

(* The caller keeps the result it was given ("returned" lists the results  *)
(* given so far) and calls validate() on the same validator once more: the *)
(* locals of the previous call are gone.                                   *)
ValidateAgain(i) ==
    /\ validators[i].pc = "returned"
    /\ validators[i].mode = "validate"
    /\ validators[i].ncalls < MaxCalls
    /\ validators' = [validators EXCEPT ![i] =
                        [NewResult([@ EXCEPT !.returned =
                                       Append(@, [id |-> validators[i].rid,
                                                  errors |-> validators[i].errors])])
                            EXCEPT !.ncalls = @ + 1, !.pc = "get_rules",
                                   !.rules = <<>>, !.idx = 0, !.halted = FALSE,
                                   !.applied = <<>>]]
    /\ UNCHANGED <<rule, twin, env, last, lastTwin, napply>>

GetRules(i) ==
    /\ validators[i].pc = "get_rules"
    /\ validators' = [validators EXCEPT ![i] = ValidateGetRules(@)]
    /\ UNCHANGED <<rule, twin, env, last, lastTwin, napply>>

Iterate(i) ==
    /\ validators[i].pc = "loop"
    /\ ~ validators[i].halted
    /\ validators[i].idx <= Len(validators[i].rules)
    /\ validators' = [validators EXCEPT ![i] = ValidateRule(@)]
    /\ UNCHANGED <<rule, twin, env, last, lastTwin, napply>>

Return(i) ==
    /\ validators[i].pc = "loop"
    /\ validators[i].halted \/ validators[i].idx > Len(validators[i].rules)
    /\ validators' = [validators EXCEPT ![i] = [@ EXCEPT !.pc = "returned"]]
    /\ UNCHANGED <<rule, twin, env, last, lastTwin, napply>>

Enter(i) ==
    /\ validators[i].mode = "with"
    /\ validators[i].pc = "returned"
    /\ validators' = [validators EXCEPT ![i] = EnterValidator(@, i)]
    /\ UNCHANGED <<rule, twin, env, last, lastTwin, napply>>

Block(i) ==
    /\ validators[i].pc = "block"
    /\ \E e \in {NoExc, Exc("RuntimeError", "block failed")} :
          validators' = [validators EXCEPT ![i] =
                            [@ EXCEPT !.nblock = @ + 1, !.blockExc = e, !.pc = "exit"]]
    /\ UNCHANGED <<rule, twin, env, last, lastTwin, napply>>

Exit(i) ==
    /\ validators[i].pc = "exit"
    /\ validators' = [validators EXCEPT ![i] = ExitValidator(@)]
    /\ UNCHANGED <<rule, twin, env, last, lastTwin, napply>>

NoRuleObject ==
    /\ rule = NoRule
    /\ twin = NoRule
    /\ env = Dict(<<>>)
    /\ last = NotCalled
    /\ lastTwin = NotCalled
    /\ napply = 0

Init ==
    /\ \E data \in DataModels, templates \in SeqsUpTo(Templates, MaxRules),
          mode \in {"validate", "with"} :
          validators = [i \in Instances |->
                           IF i = "v1" THEN NewValidator(data, templates, mode)
                           ELSE Unused]
    /\ NoRuleObject

Next ==
    \E i \in Instances :
        \/ Validate(i)
        \/ GetRules(i)
        \/ Iterate(i)
        \/ Return(i)
        \/ Enter(i)
        \/ Block(i)
        \/ Exit(i)

Spec == Init /\ [][Next]_vars

----------------------------------------------------------------------------
(* Two validators, each in its own validate() call, the two calls          *)
(* interleaved: a step of a call is one rule.apply() or one update of its  *)
(* result.                                                                 *)

(* rule.apply() of the rule at idx; what it did is kept until the result   *)
(* is updated.                                                             *)
Evaluate(i) ==
    /\ validators[i].pc = "loop"
    /\ ~ validators[i].halted
    /\ validators[i].idx <= Len(validators[i].rules)
    /\ validators[i].pending = NotCalled
    /\ validators' = [validators EXCEPT ![i] =
                        [@ EXCEPT !.pending =
                            Apply(validators[i].rules[validators[i].idx],
                                  validators[i].data)]]
    /\ UNCHANGED <<rule, twin, env, last, lastTwin, napply>>

(* Mutant: the two calls write into one ValidationResult. *)
Annotate_SharedResult(i) ==
    /\ validators[i].pending # NotCalled
    /\ validators' =
          [j \in Instances |->
              IF j = i
              THEN [ValidateOutcome(validators[i], validators[i].pending)
                       EXCEPT !.pending = NotCalled]
              ELSE [validators[j] EXCEPT !.errors =
                       ValidateOutcome(validators[i], validators[i].pending).errors]]
    /\ UNCHANGED <<rule, twin, env, last, lastTwin, napply>>

(* The update of the call's own result after rule.apply(). *)
Annotate(i) ==
    /\ validators[i].pending # NotCalled
    /\ validators' = [validators EXCEPT ![i] =
                        [ValidateOutcome(@, validators[i].pending)
                            EXCEPT !.pending = NotCalled]]
    /\ UNCHANGED <<rule, twin, env, last, lastTwin, napply>>

TemplatesTwo(i) ==
    IF i = "v1"
    THEN {Template("TypeRule", "self.data", "data",
                   [stop_if_invalid |-> TRUE, valid_type |-> "MyModel"], FALSE),
          Template("FullStringRule", "lambda: self.data.name", "name",
                   [stop_if_invalid |-> FALSE], FALSE),
          Template("RuleA", "''", "name", [stop_if_invalid |-> FALSE], FALSE)}
    ELSE {Template("FullStringRule", "self.data.name", "name",
                   [stop_if_invalid |-> FALSE, error_message |-> CUSTOM_MESSAGE], FALSE),
          Template("RuleA", "''", "data", [stop_if_invalid |-> FALSE], FALSE)}

InitTwo ==
    /\ \E data \in [Instances -> {Dict(<<>>), MyModel(Str(<<0>>))}] :
          \E templates \in [Instances -> SeqsUpTo(TemplatesTwo("v1") \cup TemplatesTwo("v2"),
                                                  MaxRules)] :
              /\ \A i \in Instances :
                    \A k \in 1..Len(templates[i]) : templates[i][k] \in TemplatesTwo(i)
              /\ validators = [i \in Instances |->
                                  NewValidator(data[i], templates[i], "validate")]
    /\ NoRuleObject

NextTwo ==
    \E i \in Instances :
        \/ Validate(i)
        \/ GetRules(i)
        \/ Evaluate(i)
        \/ Annotate(i)
        \/ Return(i)

SpecTwo == InitTwo /\ [][NextTwo]_vars

----------------------------------------------------------------------------
(* validate() called again and again on one validator, whose rules may    *)
(* include a RuleGroup with a malformed entry in its list.                 *)

TemplatesAgain ==
    {t \in Templates : "error_message" \notin DOMAIN t.opts}
    \cup
    {Template("RuleGroup", "self.data", "data",
              [rules |-> <<SeqEntry(<<ClassEntry("TypeRule")>>)>>], FALSE)}

InitAgain ==
    /\ \E data \in DataModels, templates \in SeqsUpTo(TemplatesAgain, MaxRules) :
          validators = [i \in Instances |->
                           IF i = "v1" THEN NewValidator(data, templates, "validate")
                           ELSE Unused]
    /\ NoRuleObject

NextAgain ==
    \E i \in Instances :
        \/ Validate(i)
        \/ GetRules(i)
        \/ Iterate(i)
        \/ Return(i)
        \/ ValidateAgain(i)

SpecAgain == InitAgain /\ [][NextAgain]_vars

----------------------------------------------------------------------------
(* A validator whose get_rules() may give a rule the label 'get_rules',    *)
(* the key under which validate() files a failure of get_rules() itself.   *)

TemplatesSentinel ==
    {Template("TypeRule", "self.data", label,
              Merge(Options(stop, None), [valid_type |-> "MyModel"]), FALSE) :
        label \in {"data", "get_rules"}, stop \in BOOLEAN}
    \cup
    {Template("FullStringRule", target, label, Options(FALSE, None), FALSE) :
        target \in {"self.data.name", "lambda: self.data.name"},
        label \in {"name", "get_rules"}}

InitSentinel ==
    /\ \E data \in DataModels, templates \in SeqsUpTo(TemplatesSentinel, MaxRules),
          mode \in {"validate", "with"} :
          validators = [i \in Instances |->
                           IF i = "v1" THEN NewValidator(data, templates, mode)
                           ELSE Unused]
    /\ NoRuleObject

SpecSentinel == InitSentinel /\ [][Next]_vars


----------------------------------------------------------------------------
(* Rule objects on their own: a rule and its twin are built with the same  *)
(* arguments, the rule may be negated, and apply() is called on both.      *)

Values ==
    {Str(<<1, 2, 2>>), List(<<1>>), List(<<1, 2, 1>>), List(<<1, 2, 3>>), MyObject,
     MyModel(List(<<1, 2>>))}

Targets(value) ==
    {Eager(value), Deferred("data")}
    \cup (IF value.t \in {"MyObject", "MyModel"} THEN {Deferred("name")} ELSE {})

LeafEntries ==
    {SeqEntry(<<ClassEntry("TypeRule"), DictItem([valid_type |-> "list"])>>),
     SeqEntry(<<ClassEntry("MinLengthRule"), DictItem([min_length |-> 2])>>),
     ClassEntry("UniqueItemsRule"),
     SeqEntry(<<ClassEntry("UniqueItemsRule"), DictItem([error_message |-> CUSTOM_MESSAGE])>>),
     ClassEntry("RuleA")}

MalformedEntries ==
    {NoneEntry,
     SeqEntry(<<ClassEntry("TypeRule"), ValueEntry>>),
     SeqEntry(<<ClassEntry("TypeRule")>>),
     ClassEntry("TypeRule")}

NestedEntries ==
    {SeqEntry(<<ClassEntry("RuleGroup"),
                DictItem([rules |-> <<SeqEntry(<<ClassEntry("MinLengthRule"),
                                                 DictItem([min_length |-> 2])>>),
                                      ClassEntry("UniqueItemsRule")>>])>>)}

Entries == LeafEntries \cup MalformedEntries \cup NestedEntries

RuleArguments ==
    {[cls |-> "RuleGroup", opts |-> [rules |-> rules]] :
        rules \in SeqsUpTo(Entries, MaxEntries)}
    \cup
    {[cls |-> "TypeRule", opts |-> [valid_type |-> "list"]],
     [cls |-> "MinLengthRule", opts |-> [min_length |-> 2]],
     [cls |-> "UniqueItemsRule", opts |-> <<>>],
     [cls |-> "FullStringRule", opts |-> <<>>],
     [cls |-> "RuleA", opts |-> <<>>]}

Negate ==
    /\ rule.inverted < MaxInvert
    /\ rule' = Invert(rule)
    /\ last' = NotCalled
    /\ lastTwin' = NotCalled
    /\ UNCHANGED <<validators, twin, env, napply>>

ApplyBoth ==
    /\ napply < MaxApply
    /\ rule' = Apply(rule, env).rule
    /\ last' = Apply(rule, env).out
    /\ twin' = Apply(twin, env).rule
    /\ lastTwin' = Apply(twin, env).out
    /\ napply' = napply + 1
    /\ UNCHANGED <<validators, env>>

InitRule ==
    /\ validators = [i \in Instances |-> Unused]
    /\ \E value \in Values, args \in RuleArguments, msg \in {None, CUSTOM_MESSAGE} :
          \E target \in Targets(value) :
              /\ env = value
              /\ rule = NewRule(args.cls,
                                Merge([apply_to |-> target, label |-> "Countries",
                                       error_message |-> msg], args.opts))
    /\ twin = rule
    /\ last = NotCalled
    /\ lastTwin = NotCalled
    /\ napply = 0

NextRule == Negate \/ ApplyBoth

SpecRule == InitRule /\ [][NextRule]_vars

----------------------------------------------------------------------------
(* A RuleGroup on a deferred target: between two apply() calls the object  *)
(* that the target function reads may be given another value.              *)

(* The program around the rule assigns a new value to what the lambda of   *)
(* apply_to reads; the rule object is not touched.                         *)
Rebind ==
    /\ napply < MaxApply
    /\ rule.apply_to.fn
    /\ \E value \in Values :
          /\ value # env
          /\ env' = value
    /\ UNCHANGED <<validators, rule, twin, last, lastTwin, napply>>

InitStale ==
    /\ validators = [i \in Instances |-> Unused]
    /\ \E value \in Values, rules \in SeqsUpTo(LeafEntries, MaxEntries) \ {<<>>},
          msg \in {None, CUSTOM_MESSAGE} :
          /\ env = value
          /\ rule = NewRule("RuleGroup",
                            [apply_to |-> Deferred("data"), label |-> "Countries",
                             error_message |-> msg, rules |-> rules])
    /\ twin = rule
    /\ last = NotCalled
    /\ lastTwin = NotCalled
    /\ napply = 0

NextStale == ApplyBoth \/ Rebind

SpecStale == InitStale /\ [][NextStale]_vars

----------------------------------------------------------------------------
(* The rules of pyvaru.rules that compare their target, each on its own    *)
(* and on targets of every type.                                           *)

LeafValues ==
    {NoneValue, IntVal(2), IntVal(5), Str(<<1, 2>>), Str(<<2, 1, 1>>),
     List(<<1, 2, 1>>), Tuple(<<1, 2>>), SetVal(<<1, 2>>),
     Dict(<<1, 2>>), Dict(<<1, 1, 2>>), Dict(<<1, 2, 1>>),
     DateTime(1), DateTime(3), MyObject}

LeafArguments ==
    {[cls |-> "FullStringRule", opts |-> <<>>],
     [cls |-> "MinValueRule", opts |-> [min_value |-> IntVal(3)]],
     [cls |-> "MaxValueRule", opts |-> [max_value |-> IntVal(3)]],
     [cls |-> "MinLengthRule", opts |-> [min_length |-> 3]],
     [cls |-> "MaxLengthRule", opts |-> [max_length |-> 2]],
     [cls |-> "IntervalRule", opts |-> [interval_from |-> IntVal(1), interval_to |-> IntVal(3)]],
     [cls |-> "PatternRule", opts |-> [pattern |-> Str(<<1>>)]],
     [cls |-> "PastDateRule", opts |-> <<>>],
     [cls |-> "FutureDateRule", opts |-> [reference_date |-> DateTime(2)]],
     [cls |-> "UniqueItemsRule", opts |-> <<>>]}

InitLeaf ==
    /\ validators = [i \in Instances |-> Unused]
    /\ \E value \in LeafValues, args \in LeafArguments, msg \in {None, CUSTOM_MESSAGE} :
          \E target \in {Eager(value), Deferred("data")} :
              /\ env = value
              /\ Returned(Instantiate(args.cls,
                                      Merge([apply_to |-> target, label |-> "Countries",
                                             error_message |-> msg], args.opts)))
              /\ rule = Instantiate(args.cls,
                                    Merge([apply_to |-> target, label |-> "Countries",
                                           error_message |-> msg], args.opts)).val
    /\ twin = rule
    /\ last = NotCalled
    /\ lastTwin = NotCalled
    /\ napply = 0

SpecLeaf == InitLeaf /\ [][NextRule]_vars

----------------------------------------------------------------------------
(* RuleGroups given as entries of RuleGroups, down to MaxDepth levels.     *)

GroupEntry(rules) == SeqEntry(<<ClassEntry("RuleGroup"), DictItem([rules |-> rules])>>)

LongEnough == SeqEntry(<<ClassEntry("MinLengthRule"), DictItem([min_length |-> 2])>>)

RECURSIVE NestedTo(_)
NestedTo(depth) ==
    IF depth = 0
    THEN {LongEnough, ClassEntry("UniqueItemsRule"), ClassEntry("RuleA")}
    ELSE NestedTo(0)
         \cup {GroupEntry(<<inner>>) : inner \in NestedTo(depth - 1)}
         \cup {GroupEntry(<<LongEnough, inner>>) : inner \in NestedTo(depth - 1)}

InitNested ==
    /\ validators = [i \in Instances |-> Unused]
    /\ \E value \in Values, inner \in NestedTo(MaxDepth) :
          \E target \in Targets(value),
             rules \in {<<inner>>, <<LongEnough, inner>>,
                        <<inner, ClassEntry("UniqueItemsRule")>>} :
              /\ env = value
              /\ rule = NewRule("RuleGroup",
                                [apply_to |-> target, label |-> "Countries",
                                 rules |-> rules])
    /\ twin = rule
    /\ last = NotCalled
    /\ lastTwin = NotCalled
    /\ napply = 0

SpecNested == InitNested /\ [][NextRule]_vars

----------------------------------------------------------------------------
(* A RuleGroup whose list holds one malformed entry of each kind, alone or *)
(* after a well-formed one.                                                *)

MalformedKinds ==
    {SeqEntry(<<ClassEntry("TypeRule")>>),
     SeqEntry(<<ClassEntry("TypeRule"), DictItem([valid_type |-> "list"]), ValueEntry>>),
     SeqEntry(<<ClassEntry("int"), DictItem(<<>>)>>),
     SeqEntry(<<ValueEntry, DictItem(<<>>)>>),
     SeqEntry(<<ClassEntry("TypeRule"), ValueEntry>>),
     NoneEntry,
     ValueEntry,
     DictItem(<<>>),
     ClassEntry("int")}

InitMalformed ==
    /\ validators = [i \in Instances |-> Unused]
    /\ \E value \in Values, bad \in MalformedKinds,
          before \in SeqsUpTo(LeafEntries, MaxEntries - 1) :
          \E target \in Targets(value) :
              /\ env = value
              /\ rule = NewRule("RuleGroup",
                                [apply_to |-> target, label |-> "Countries",
                                 rules |-> Append(before, bad)])
    /\ twin = rule
    /\ last = NotCalled
    /\ lastTwin = NotCalled
    /\ napply = 0

SpecMalformed == InitMalformed /\ [][NextRule]_vars

----------------------------------------------------------------------------
(* Vocabulary of the properties of a validator pass. *)

Constructed(v) == v.pc # "unused"

(* get_rules() has returned its list to validate(). *)
Listed(v) == v.pc \notin {"unused", "new", "get_rules"} /\ Returned(get_rules(v))

(* validate() has returned its ValidationResult. *)
Validated(v) == v.pc \in {"returned", "block", "exit", "left", "raised"}

(* What apply() of the k-th rule of the list does, taken on its own. *)
Outcome(v, k) == Apply(get_rules(v).val[k], v.data)

Passes(v, k) == Returned(Outcome(v, k).out) /\ Outcome(v, k).out.val
Fails(v, k) == Returned(Outcome(v, k).out) /\ ~ Outcome(v, k).out.val
Raises(v, k) == Raised(Outcome(v, k).out)

LabelOf(v, k) == get_rules(v).val[k].label

(* The message the k-th rule owes to the outcome, if any. *)
Owed(v, k) ==
    IF Raises(v, k) THEN <<ExcStr(Outcome(v, k).out.exc)>>
    ELSE IF Fails(v, k) THEN <<get_error_message(Outcome(v, k).rule)>>
    ELSE <<>>

(* The messages owed under a label by the rules at positions ks, in order. *)
RECURSIVE OwedUnder(_, _, _)
OwedUnder(v, ks, label) ==
    IF ks = <<>> THEN <<>>
    ELSE (IF LabelOf(v, Head(ks)) = label THEN Owed(v, Head(ks)) ELSE <<>>)
         \o OwedUnder(v, Tail(ks), label)

UpTo(n) == [k \in 1..n |-> k]

Labels == {"data", "name", "get_rules"}

----------------------------------------------------------------------------
(* C1: when every rule of the list returned by get_rules() (the empty list *)
(* included) has apply() return true, validate() returns a result that is  *)
(* successful and whose errors mapping is empty.                           *)
C1_AllPassIsSuccessful ==
    \A i \in Instances :
        LET v == validators[i] IN
        (Listed(v) /\ Validated(v) /\ \A k \in 1..Len(v.rules) : Passes(v, k))
            => is_successful(v.errors) /\ v.errors = <<>>

C1_Witness ==
    \E i \in Instances :
        LET v == validators[i] IN
        /\ Listed(v) /\ Validated(v)
        /\ Len(v.rules) = 2
        /\ v.applied = <<1, 2>>
        /\ \A k \in 1..Len(v.rules) : Passes(v, k)

(* C2: when some evaluated rule has apply() return false the result is not *)
(* successful, and under every label the list of messages is exactly what  *)
(* the evaluated rules carrying that label owe, in the order in which they *)
(* were evaluated: two failing rules sharing a label both appear, in order.*)
C2_FailuresAppendedInOrder ==
    \A i \in Instances :
        LET v == validators[i] IN
        Listed(v) =>
            /\ (\E n \in 1..Len(v.applied) : Fails(v, v.applied[n]))
                  => ~ is_successful(v.errors)
            /\ \A label \in Labels :
                  Get(v.errors, label) = OwedUnder(v, v.applied, label)

C2_Witness ==
    \E i \in Instances :
        LET v == validators[i] IN
        /\ Listed(v) /\ Validated(v)
        /\ v.applied = <<1, 2>>
        /\ Fails(v, 1) /\ Fails(v, 2)
        /\ LabelOf(v, 1) = LabelOf(v, 2)
        /\ Owed(v, 1) # Owed(v, 2)
        /\ Get(v.errors, LabelOf(v, 1)) = Owed(v, 1) \o Owed(v, 2)

(* C3: once a rule built with stop_if_invalid=True has apply() return      *)
(* false, no rule listed after it is applied and the result holds only the *)
(* messages owed by the rules up to it.                                    *)
C3_StopIfInvalidHalts ==
    \A i \in Instances :
        LET v == validators[i] IN
        Listed(v) =>
            \A n \in 1..Len(v.applied) :
                LET k == v.applied[n] IN
                (v.rules[k].stop_if_invalid /\ Fails(v, k)) =>
                    /\ \A m \in 1..Len(v.applied) : v.applied[m] <= k
                    /\ \A label \in Labels :
                          Get(v.errors, label) = OwedUnder(v, UpTo(k), label)

C3_Witness ==
    \E i \in Instances :
        LET v == validators[i] IN
        /\ Listed(v) /\ Validated(v)
        /\ Len(v.rules) = 2
        /\ v.rules[1].stop_if_invalid /\ Fails(v, 1)
        /\ ~ Passes(v, 2)
        /\ v.applied = <<1>>

(* C4: when apply() of a rule raises, validate() catches the exception,    *)
(* appends str(exception) under that rule's own label and goes on to the   *)
(* next rule of the list: the pass returns and no rule after it is skipped.*)
C4_RaisingRuleIsRecorded ==
    \A i \in Instances :
        LET v == validators[i] IN
        Listed(v) =>
            \A n \in 1..Len(v.applied) :
                LET k == v.applied[n] IN
                Raises(v, k) =>
                    /\ Get(v.errors, LabelOf(v, k)) = OwedUnder(v, v.applied, LabelOf(v, k))
                    /\ \E m \in 1..Len(Get(v.errors, LabelOf(v, k))) :
                          Get(v.errors, LabelOf(v, k))[m] = ExcStr(Outcome(v, k).out.exc)
                    /\ ~ HasKey(v.errors, "get_rules")
                    /\ v.halted => v.applied[Len(v.applied)] > k
                    /\ v.idx > k
                    /\ (Validated(v) /\ k < Len(v.rules)) =>
                          \E m \in 1..Len(v.applied) : v.applied[m] = k + 1

C4_Witness ==
    \E i \in Instances :
        LET v == validators[i] IN
        /\ Listed(v) /\ Validated(v)
        /\ Len(v.rules) = 2
        /\ Raises(v, 1) /\ v.rules[1].stop_if_invalid
        /\ Raises(v, 2)
        /\ Outcome(v, 1).out.exc # Outcome(v, 2).out.exc
        /\ v.applied = <<1, 2>>

(* C5: when get_rules() raises while it builds the list, validate()        *)
(* applies no rule at all and returns an unsuccessful result whose only    *)
(* key is "get_rules", holding the one message str(exception).             *)
C5_GetRulesFailureRunsNoRule ==
    \A i \in Instances :
        LET v == validators[i] IN
        (Constructed(v) /\ v.pc \notin {"new", "get_rules"} /\ Raised(get_rules(v))) =>
            /\ v.applied = <<>>
            /\ Validated(v)
            /\ ~ is_successful(v.errors)
            /\ v.errors = <<[key |-> "get_rules", msgs |-> <<ExcStr(get_rules(v).exc)>>]>>

C5_Witness ==
    \E i \in Instances :
        LET v == validators[i] IN
        /\ Validated(v)
        /\ Raised(get_rules(v))
        /\ Len(v.templates) = 2
        /\ v.templates[1].opts.stop_if_invalid
        /\ Returned(Construct(v.templates[1], v.data))
        /\ ~ Apply(Construct(v.templates[1], v.data).val, v.data).out.val

(* C6: entering a Validator as a context manager runs validate() once;     *)
(* when the result is unsuccessful, entry raises ValidationException whose *)
(* validation_result carries that result's errors and the guarded block is *)
(* never executed.                                                         *)
C6_GuardRaisesOnFailure ==
    \A i \in Instances :
        LET v == validators[i] IN
        (v.mode = "with" /\ Validated(v) /\ ~ is_successful(v.errors)) =>
            /\ v.ncalls = 1
            /\ v.nblock = 0
            /\ v.pc \in {"returned", "raised"}
            /\ v.pc = "raised" => v.exc = ValidationException(v.errors)

C6_Witness ==
    \E i \in Instances :
        LET v == validators[i] IN
        /\ v.mode = "with"
        /\ v.pc = "raised"
        /\ Listed(v)
        /\ Len(v.errors) = 2
        /\ v.exc.type = "ValidationException"

(* C7: entering a Validator as a context manager when validate() is        *)
(* successful yields the Validator itself and the guarded block runs       *)
(* exactly once; leaving performs nothing: validate() is not run again, no *)
(* field of the validator changes, and an exception raised by the block    *)
(* propagates.                                                             *)
C7_GuardState ==
    \A i \in Instances :
        LET v == validators[i] IN
        (v.mode = "with" /\ Validated(v) /\ is_successful(v.errors)) =>
            /\ v.ncalls = 1
            /\ v.pc \in {"block", "exit", "left", "raised"} => v.yielded = i
            /\ v.pc = "block" => v.nblock = 0
            /\ v.pc \in {"exit", "left", "raised"} => v.nblock = 1
            /\ v.pc = "left" => v.blockExc = NoExc /\ v.exc = NoExc
            /\ v.pc = "raised" => v.blockExc # NoExc /\ v.exc = v.blockExc

C7_ExitStep ==
    \A i \in Instances :
        validators[i].pc = "exit" =>
            /\ validators'[i].pc \in {"left", "raised"}
            /\ validators'[i] = [validators[i] EXCEPT !.pc = validators'[i].pc,
                                                      !.exc = validators'[i].exc]

C7_GuardYieldsAndExitIsInert == [] C7_GuardState /\ [][C7_ExitStep]_vars

C7_Witness ==
    \E i \in Instances :
        LET v == validators[i] IN
        /\ v.mode = "with"
        /\ Len(v.rules) = 2
        /\ v.pc = "raised"
        /\ v.nblock = 1
        /\ v.exc.type = "RuntimeError"

----------------------------------------------------------------------------
(* Vocabulary of the properties of a RuleGroup: its children taken one by  *)
(* one, each resolved from its entry and applied on its own.               *)

IsGroup(r) == r.cls = "RuleGroup"

Resolved(g, k) == _get_configured_rule(g, g.rules[k], env)
Resolves(g, k) == Returned(Resolved(g, k))
ChildDid(g, k) == Apply(Resolved(g, k).val, env)
ChildPasses(g, k) ==
    Resolves(g, k) /\ Returned(ChildDid(g, k).out) /\ ChildDid(g, k).out.val
ChildFails(g, k) == Resolves(g, k) /\ ~ ChildPasses(g, k)

(* An entry that the group's own check rejects as a bad configuration. *)
Malformed(entry) ==
    Raised(CheckEntry(entry)) /\ CheckEntry(entry).exc.type = "InvalidRuleGroupException"

(* C8: the negated rule ~R, leaf or RuleGroup, has apply() return the      *)
(* logical NOT of what the un-negated R returns on the same target, and    *)
(* its get_error_message() returns the same text as the un-negated rule's. *)
C8_NegationInvertsApplyOnly ==
    (rule.inverted % 2 = 1 /\ last # NotCalled) =>
        /\ Returned(lastTwin) => (Returned(last) /\ last.val = ~ lastTwin.val)
        /\ Raised(lastTwin) => last = lastTwin
        /\ get_error_message(rule) = get_error_message(twin)

C8_Witness ==
    /\ IsGroup(rule)
    /\ rule.inverted = 1
    /\ last = Ret(TRUE)
    /\ lastTwin = Ret(FALSE)
    /\ get_error_message(rule) # BaseGetErrorMessage(rule)

(* C9: RuleGroup.apply() returns true exactly when every child resolved    *)
(* from its list returns true from apply(); when it returns false, the     *)
(* group's get_error_message() is that of the first child, in list order,  *)
(* whose apply() returned false or raised.                                 *)
C9_GroupPassesIffAllChildrenPass ==
    (IsGroup(twin) /\ Returned(lastTwin)) =>
        /\ lastTwin.val <=> \A k \in 1..Len(twin.rules) : ChildPasses(twin, k)
        /\ ~ lastTwin.val =>
              \E k \in 1..Len(twin.rules) :
                  /\ ChildFails(twin, k)
                  /\ \A j \in 1..(k - 1) : ChildPasses(twin, j)
                  /\ get_error_message(twin) = get_error_message(ChildDid(twin, k).rule)

C9_Witness ==
    /\ IsGroup(twin)
    /\ lastTwin = Ret(FALSE)
    /\ Len(twin.rules) = 2
    /\ ChildPasses(twin, 1)
    /\ Raised(ChildDid(twin, 2).out)
    /\ get_error_message(twin) # BaseGetErrorMessage(twin)

(* C10: applying a RuleGroup whose list holds a malformed entry raises     *)
(* InvalidRuleGroupException whatever the target value is, also when a     *)
(* well-formed child listed before the malformed entry fails on it.        *)
C10_MalformedEntryAlwaysRaises ==
    (/\ IsGroup(twin)
     /\ lastTwin # NotCalled
     /\ ~ twin.apply_to.fn
     /\ \E m \in 1..Len(twin.rules) :
           /\ Malformed(twin.rules[m])
           /\ \A j \in 1..(m - 1) : Resolves(twin, j))
        => (Raised(lastTwin) /\ lastTwin.exc.type = "InvalidRuleGroupException")

(* C11: a rule constructed with a custom error message, leaf or RuleGroup, *)
(* has get_error_message() return that message in every state: before      *)
(* apply(), after a passing, a failing and a type-mismatch apply().        *)
C11_CustomMessageAlwaysWins ==
    Truthy(twin.custom_error_message) =>
        get_error_message(twin) = twin.custom_error_message

(* C12: a rule whose target is a zero-argument function does not call it   *)
(* where the rule is constructed nor while get_rules() builds the list:    *)
(* the function is called only by apply() of that rule.  So when an        *)
(* earlier rule with stop_if_invalid fails, the function of a later rule   *)
(* is never called and the result holds the earlier rule's label only.     *)
IsLambda(expr) == expr \in {"lambda: self.data", "lambda: self.data.name"}

C12_DeferredTargetReadOnlyByApply ==
    \A i \in Instances :
        LET v == validators[i]
            evaluated == {v.applied[n] : n \in 1..Len(v.applied)}
        IN
        /\ (Validated(v) /\ HasKey(v.errors, "get_rules")) =>
              \E k \in 1..Len(v.templates) : ~ IsLambda(v.templates[k].target)
        /\ Listed(v) =>
              \A k \in 1..Len(v.rules) :
                  /\ IsLambda(v.templates[k].target) =>
                        /\ v.rules[k].apply_to.fn
                        /\ (v.rules[k].apply_to.calls > 0) <=> (k \in evaluated)
                  /\ (/\ Validated(v)
                      /\ v.rules[k].stop_if_invalid
                      /\ Fails(v, k)
                      /\ \A j \in 1..(k - 1) : Passes(v, j)) =>
                        /\ Keys(v.errors) = <<LabelOf(v, k)>>
                        /\ \A j \in (k + 1)..Len(v.rules) :
                              v.rules[j].apply_to.fn => v.rules[j].apply_to.calls = 0

C12_Witness ==
    \E i \in Instances :
        LET v == validators[i] IN
        /\ Listed(v) /\ Validated(v)
        /\ Len(v.rules) = 2
        /\ v.rules[1].stop_if_invalid /\ Fails(v, 1)
        /\ IsLambda(v.templates[2].target)
        /\ Raised(apply_to(v.rules[2], v.data))
        /\ v.rules[2].apply_to.calls = 0
        /\ Keys(v.errors) = <<"data">>

(* C13: whether get_rules() returns a list or raises, and whether apply()  *)
(* of each rule returns true, returns false or raises, validate() lets no  *)
(* exception out to its caller and returns a result in which every         *)
(* violation and every exception of the evaluation is recorded.            *)
C13_ValidateNeverPropagates ==
    \A i \in Instances :
        LET v == validators[i] IN
        /\ v.pc # "propagated"
        /\ v.mode = "validate" => v.exc = NoExc
        /\ (Validated(v) /\ ~ Listed(v)) =>
              Get(v.errors, "get_rules") = <<ExcStr(get_rules(v).exc)>>
        /\ (Validated(v) /\ Listed(v)) =>
              \A n \in 1..Len(v.applied) :
                  LET k == v.applied[n] IN
                  /\ Raises(v, k) =>
                        \E m \in 1..Len(Get(v.errors, LabelOf(v, k))) :
                            Get(v.errors, LabelOf(v, k))[m] = ExcStr(Outcome(v, k).out.exc)
                  /\ Fails(v, k) =>
                        \E m \in 1..Len(Get(v.errors, LabelOf(v, k))) :
                            Get(v.errors, LabelOf(v, k))[m]
                                = get_error_message(Outcome(v, k).rule)

C13_Witness ==
    \E i \in Instances :
        LET v == validators[i] IN
        /\ v.mode = "validate" /\ v.pc = "returned" /\ Listed(v)
        /\ v.applied = <<1, 2>>
        /\ Raises(v, 1) /\ Fails(v, 2)
        /\ LabelOf(v, 1) # LabelOf(v, 2)
        /\ Len(v.errors) = 2

(* C14: validate() called any number of times on one validator, the data   *)
(* unchanged and get_rules() deterministic, returns each time a distinct   *)
(* ValidationResult with an equal errors mapping: no error of one call is  *)
(* carried into, or repeated in, the result of a later call.               *)
ResultsGiven(v) ==
    IF v.pc = "returned"
    THEN Append(v.returned, [id |-> v.rid, errors |-> v.errors])
    ELSE v.returned

C14_RepeatedValidateIsIndependent ==
    \A i \in Instances :
        LET given == ResultsGiven(validators[i]) IN
        \A a, b \in 1..Len(given) :
            a # b => given[a].id # given[b].id /\ given[a].errors = given[b].errors

C14_Witness ==
    \E i \in Instances :
        LET v == validators[i] IN
        /\ v.pc = "returned"
        /\ Len(ResultsGiven(v)) = MaxCalls
        /\ Len(v.errors) = 1
        /\ Len(v.errors[1].msgs) = 2

(* The target holds no two equal items: the values of a dict, the elements *)
(* of a list, a tuple or a str; a set never holds two equal items.         *)
NoDuplicates(value) ==
    \A a, b \in 1..Len(value.v) : a # b => value.v[a] # value.v[b]

(* C15: UniqueItemsRule.apply() returns true if and only if the target     *)
(* holds no duplicated items: no two equal elements of a list, tuple or    *)
(* string, no two equal values of a dictionary wherever they sit in it,    *)
(* and always true for a set.                                              *)
C15_UniqueItemsIffNoDuplicates ==
    (twin.cls = "UniqueItemsRule" /\ HasLen(env) /\ lastTwin # NotCalled) =>
        /\ Returned(lastTwin)
        /\ lastTwin.val <=> NoDuplicates(env)

(* The types whose values support what apply() of the class does with its  *)
(* target: strip, an ordering against a number or a date, len, re.match,   *)
(* iteration.                                                              *)
Supports(c, value) ==
    CASE c \in {"FullStringRule", "PatternRule"} -> value.t = "str"
      [] c \in {"MinValueRule", "MaxValueRule", "IntervalRule"} -> value.t = "int"
      [] c \in {"PastDateRule", "FutureDateRule"} -> value.t = "datetime"
      [] c \in {"MinLengthRule", "MaxLengthRule", "UniqueItemsRule"} ->
            value.t \in {"str", "list", "tuple", "dict", "set"}
      [] OTHER -> TRUE

(* C16: apply() of FullStringRule, MinValueRule, MaxValueRule,             *)
(* MinLengthRule, MaxLengthRule, IntervalRule, PatternRule, PastDateRule,  *)
(* FutureDateRule and UniqueItemsRule on a target whose type does not      *)
(* support the rule's operation returns false and raises no exception.     *)
C16_UnsupportedTypeReturnsFalse ==
    (/\ twin.cls \in {a.cls : a \in LeafArguments}
     /\ ~ Supports(twin.cls, env)
     /\ lastTwin # NotCalled) => lastTwin = Ret(FALSE)

C16_Witness ==
    /\ twin.cls = "IntervalRule"
    /\ env = DateTime(1)
    /\ twin.apply_to.fn
    /\ lastTwin = Ret(FALSE)
    /\ twin.type_error_occurred

(* C17: when apply() of a rule constructed with stop_if_invalid=True       *)
(* raises, validate() halts as it does for a false return: the exception   *)
(* is recorded under the rule's label and no rule listed after it is       *)
(* evaluated.                                                              *)
C17_RaisingStopRuleHalts ==
    \A i \in Instances :
        LET v == validators[i] IN
        (Listed(v) /\ Validated(v)) =>
            \A n \in 1..Len(v.applied) :
                LET k == v.applied[n] IN
                (v.rules[k].stop_if_invalid /\ Raises(v, k)) =>
                    /\ HasKey(v.errors, LabelOf(v, k))
                    /\ n = Len(v.applied)

(* C18: a configuration error of a RuleGroup is never absorbed into a      *)
(* result: when validate() evaluates a RuleGroup with a malformed entry,   *)
(* the InvalidRuleGroupException goes out to the caller of validate() and  *)
(* is not recorded as a message of the ValidationResult.                   *)
C18_ConfigurationErrorPropagates ==
    \A i \in Instances :
        LET v == validators[i] IN
        \A n \in 1..Len(v.applied) :
            LET k == v.applied[n] IN
            (/\ IsGroup(v.rules[k])
             /\ Raises(v, k)
             /\ Outcome(v, k).out.exc.type = "InvalidRuleGroupException") =>
                /\ v.pc = "propagated"
                /\ v.exc = Outcome(v, k).out.exc
                /\ ~ HasKey(v.errors, LabelOf(v, k))

(* An entry that names a subclass of ValidationRule. *)
IsRuleClass(x) == x.form = "class" /\ IsSubclassOfValidationRule(x.cls)

(* The kinds of malformed entry: a sequence whose length is not 2, a pair  *)
(* whose first element is not a rule class or whose second is not a dict,  *)
(* None, and a bare value or class that is not a rule class.               *)
MalformedKind(entry) ==
    IF entry.form = "seq"
    THEN \/ Len(entry.items) # 2
         \/ ~ IsRuleClass(entry.items[1])
         \/ entry.items[2].form # "dict"
    ELSE ~ IsRuleClass(entry)

(* C19: resolving an entry of a RuleGroup's list raises                    *)
(* InvalidRuleGroupException, and no exception of another type, for every  *)
(* kind of malformed entry: a sequence whose length is not 2, a pair whose *)
(* first element is not a Rule subclass (a value that is no class          *)
(* included) or whose second is not a mapping, None, and a bare value or   *)
(* class that is not a Rule subclass.                                      *)
C19_MalformedEntryRaisesConfigurationError ==
    (IsGroup(twin) /\ lastTwin # NotCalled /\ Returned(apply_to(twin, env))) =>
        \A m \in 1..Len(twin.rules) :
            MalformedKind(twin.rules[m]) =>
                /\ Raised(Resolved(twin, m))
                /\ Resolved(twin, m).exc.type = "InvalidRuleGroupException"

(* C20: RuleGroup.apply() takes the entries of its list in order and stops *)
(* at the first child whose apply() returns false or raises: it returns    *)
(* false, keeps that child as the failed rule, and resolves, instantiates  *)
(* and applies no entry after it; the child's exception does not leave the *)
(* group.                                                                  *)
C20_GroupStopsAtFirstFailingChild ==
    (IsGroup(twin) /\ lastTwin # NotCalled) =>
        \A k \in 1..Len(twin.rules) :
            (ChildFails(twin, k) /\ \A j \in 1..(k - 1) : ChildPasses(twin, j)) =>
                /\ lastTwin = Ret(FALSE)
                /\ twin.failed_rule = ChildDid(twin, k).rule
                /\ twin.apply_to.fn => twin.apply_to.calls = napply * k

C20_Witness ==
    /\ IsGroup(twin)
    /\ lastTwin = Ret(FALSE)
    /\ Len(twin.rules) = 2
    /\ Resolves(twin, 1)
    /\ Raised(ChildDid(twin, 1).out)
    /\ Malformed(twin.rules[2])
    /\ twin.failed_rule.cls = "RuleA"
    /\ twin.apply_to.fn
    /\ twin.apply_to.calls = 1

(* C21: a rule that defines a type_error_message (FullStringRule,          *)
(* PatternRule, PastDateRule, FutureDateRule, UniqueItemsRule) and was     *)
(* constructed without a custom message returns that type_error_message    *)
(* from get_error_message() after an apply() that failed because the       *)
(* target has the wrong type.                                              *)
C21_TypeMismatchGivesTypeMessage ==
    (/\ type_error_message(twin.cls) # None
     /\ ~ Truthy(twin.custom_error_message)
     /\ lastTwin = Ret(FALSE)
     /\ twin.type_error_occurred) =>
        get_error_message(twin) = type_error_message(twin.cls)

(* The labels of the rules at positions ks that owe a message, each label  *)
(* once, in the order of its first failure.                                *)
RECURSIVE FirstFailures(_, _, _)
FirstFailures(v, ks, seen) ==
    IF ks = <<>> THEN <<>>
    ELSE LET label == LabelOf(v, Head(ks)) IN
         IF Owed(v, Head(ks)) # <<>> /\ label \notin seen
         THEN <<label>> \o FirstFailures(v, Tail(ks), seen \cup {label})
         ELSE FirstFailures(v, Tail(ks), seen)

(* C22: within one validate() call get_rules() is called once, apply() of  *)
(* each rule at most once, and the rules are evaluated one after the other *)
(* in list order; in the result the messages of a label are in evaluation  *)
(* order and the labels are in the order of their first failure.           *)
C22_EvaluationIsSequentialAndOrdered ==
    \A i \in Instances :
        LET v == validators[i] IN
        /\ v.pc = "get_rules" => v.ngetrules = v.ncalls - 1
        /\ v.pc \notin {"unused", "new", "get_rules"} => v.ngetrules = v.ncalls
        /\ \A n \in 1..Len(v.applied) : v.applied[n] = n
        /\ v.pc = "loop" => v.idx = Len(v.applied) + 1
        /\ Listed(v) =>
              /\ Keys(v.errors) = FirstFailures(v, v.applied, {})
              /\ \A n \in 1..Len(v.errors) :
                    v.errors[n].msgs = OwedUnder(v, v.applied, v.errors[n].key)

C22_Witness ==
    \E i \in Instances :
        LET v == validators[i] IN
        /\ Listed(v) /\ Validated(v)
        /\ v.ngetrules = 1
        /\ v.applied = <<1, 2>>
        /\ Owed(v, 1) # <<>> /\ Owed(v, 2) # <<>>
        /\ Keys(v.errors) = <<"name", "data">>

(* A rule at position k that validate() evaluated, built with              *)
(* stop_if_invalid, whose target is a function that raises when called.    *)
DeferredTargetRaised(v, k) ==
    /\ \E n \in 1..Len(v.applied) : v.applied[n] = k
    /\ v.rules[k].stop_if_invalid
    /\ v.rules[k].apply_to.fn
    /\ Raised(apply_to(v.rules[k], v.data))

(* C23, as stated: when the deferred target of a rule with stop_if_invalid *)
(* raises while validate() evaluates the rule, the exception is recorded   *)
(* under the sentinel label 'get_rules', a label other than the rule's.    *)
C23_DeferredTargetErrorUnderSentinel ==
    \A i \in Instances :
        LET v == validators[i] IN
        \A k \in 1..Len(v.rules) :
            DeferredTargetRaised(v, k) =>
                /\ LabelOf(v, k) # "get_rules"
                /\ HasKey(v.errors, "get_rules")

(* C23, amended: when the deferred target of a rule with stop_if_invalid   *)
(* raises while validate() evaluates the rule, the exception is recorded   *)
(* under the rule's own label, and nothing is recorded under the sentinel  *)
(* label 'get_rules'.                                                      *)
C23_DeferredTargetErrorUnderOwnLabel ==
    \A i \in Instances :
        LET v == validators[i] IN
        \A k \in 1..Len(v.rules) :
            DeferredTargetRaised(v, k) =>
                /\ \E m \in 1..Len(Get(v.errors, v.rules[k].label)) :
                      Get(v.errors, v.rules[k].label)[m]
                          = ExcStr(apply_to(v.rules[k], v.data).exc)
                /\ v.rules[k].label # "get_rules" => ~ HasKey(v.errors, "get_rules")

C23_Witness ==
    \E i \in Instances :
        LET v == validators[i] IN
        /\ v.pc = "returned"
        /\ Len(v.rules) = 1
        /\ DeferredTargetRaised(v, 1)
        /\ Keys(v.errors) = <<"name">>

(* The validator as validate() leaves it when the call runs alone, from    *)
(* "result = ValidationResult()" to "return result".                       *)
RECURSIVE RunLoop(_)
RunLoop(v) ==
    IF v.pc = "loop" /\ ~ v.halted /\ v.idx <= Len(v.rules)
    THEN RunLoop(ValidateRule(v))
    ELSE v

RunAlone(v) ==
    RunLoop(ValidateGetRules(NewResult(NewValidator(v.data, v.templates, v.mode))))

(* C24: when the validate() calls of two Validator instances are           *)
(* interleaved, a step being one rule evaluation or one update of a        *)
(* result, each call returns the result it returns when it runs alone: no  *)
(* message recorded by one call shows in the result of the other.          *)
C24_InterleavedCallsAreIndependent ==
    \A i \in Instances :
        LET v == validators[i] IN
        /\ v.pc = "returned" => v.errors = RunAlone(v).errors
        /\ v.pc \in {"get_rules", "loop"} =>
              /\ Len(v.errors) <= Len(RunAlone(v).errors)
              /\ \A n \in 1..Len(v.errors) :
                    /\ v.errors[n].key = RunAlone(v).errors[n].key
                    /\ Len(v.errors[n].msgs) <= Len(RunAlone(v).errors[n].msgs)
                    /\ v.errors[n].msgs =
                          SubSeq(RunAlone(v).errors[n].msgs, 1, Len(v.errors[n].msgs))

C24_Witness ==
    /\ validators["v1"].pc = "returned"
    /\ validators["v2"].pc = "loop"
    /\ validators["v2"].pending # NotCalled
    /\ validators["v1"].applied = <<1, 2>>
    /\ validators["v2"].applied = <<1>>
    /\ validators["v1"].errors # <<>>
    /\ validators["v2"].errors # <<>>
    /\ validators["v1"].errors # validators["v2"].errors

(* The leaves of a list of entries, the entries of the RuleGroups nested   *)
(* in it included, in depth-first list order.                              *)
IsGroupEntry(entry) ==
    /\ entry.form = "seq"
    /\ Len(entry.items) = 2
    /\ entry.items[1] = ClassEntry("RuleGroup")
    /\ entry.items[2].form = "dict"
    /\ "rules" \in DOMAIN entry.items[2].opts

RECURSIVE Leaves(_)
Leaves(entries) ==
    IF entries = <<>> THEN <<>>
    ELSE (IF IsGroupEntry(Head(entries))
          THEN Leaves(Head(entries).items[2].opts.rules)
          ELSE <<Head(entries)>>)
         \o Leaves(Tail(entries))

(* What a leaf does when the group g resolves and applies it. *)
LeafDid(g, entry) == Apply(_get_configured_rule(g, entry, env).val, env)

LeafPasses(g, entry) ==
    /\ Returned(_get_configured_rule(g, entry, env))
    /\ Returned(LeafDid(g, entry).out)
    /\ LeafDid(g, entry).out.val

(* C25: a RuleGroup given as an entry of another RuleGroup behaves as any  *)
(* child, to any depth: the outer group passes if and only if every leaf   *)
(* of the nested structure passes, and when it fails its                   *)
(* get_error_message() is the message of the first leaf, in depth-first    *)
(* list order, that fails or raises.                                       *)
C25_NestedGroupsActAsTheirLeaves ==
    (IsGroup(twin) /\ Returned(lastTwin)) =>
        LET leaves == Leaves(twin.rules) IN
        /\ lastTwin.val <=> \A n \in 1..Len(leaves) : LeafPasses(twin, leaves[n])
        /\ ~ lastTwin.val =>
              \E n \in 1..Len(leaves) :
                  /\ ~ LeafPasses(twin, leaves[n])
                  /\ \A m \in 1..(n - 1) : LeafPasses(twin, leaves[m])
                  /\ get_error_message(twin)
                        = get_error_message(LeafDid(twin, leaves[n]).rule)

C25_Witness ==
    /\ IsGroup(twin)
    /\ lastTwin = Ret(FALSE)
    /\ Len(twin.rules) = 2
    /\ twin.rules[1] = LongEnough
    /\ \E a \in NestedTo(0) \ {LongEnough} :
          twin.rules[2] =
              GroupEntry(<<LongEnough, GroupEntry(<<LongEnough, GroupEntry(<<a>>)>>)>>)
    /\ twin.failed_rule.cls = "RuleGroup"
    /\ twin.failed_rule.failed_rule.cls = "RuleGroup"
    /\ twin.failed_rule.failed_rule.failed_rule.cls = "RuleGroup"
    /\ get_error_message(twin) = default_error_message("UniqueItemsRule")

(* C26: validate() leaves a rule of the list unevaluated only if a rule    *)
(* before it in the list had stop_if_invalid set and its apply() returned  *)
(* false: a rule with stop_if_invalid that passes, and a rule without it   *)
(* that fails or raises, never make validate() skip a later rule.          *)
C26_SkippedOnlyAfterFailedStopRule ==
    \A i \in Instances :
        LET v == validators[i]
            evaluated == {v.applied[n] : n \in 1..Len(v.applied)}
        IN
        (Listed(v) /\ Validated(v)) =>
            \A k \in 1..Len(v.rules) :
                /\ k \notin evaluated =>
                      \E j \in 1..(k - 1) :
                          /\ j \in evaluated
                          /\ v.rules[j].stop_if_invalid
                          /\ Fails(v, j)
                /\ (k \in evaluated /\ ~ (v.rules[k].stop_if_invalid /\ Fails(v, k))) =>
                      (k < Len(v.rules) => (k + 1) \in evaluated)

C26_Witness ==
    \E i \in Instances :
        LET v == validators[i] IN
        /\ Listed(v) /\ Validated(v)
        /\ Len(v.rules) = 2
        /\ ~ v.rules[1].stop_if_invalid /\ Fails(v, 1)
        /\ v.rules[2].stop_if_invalid /\ Passes(v, 2)
        /\ v.applied = <<1, 2>>

(* C27: in every result returned by validate() the key 'get_rules' is      *)
(* present only if get_rules() itself raised: once get_rules() has given   *)
(* its list, no evaluation of an item of the list, whatever its label,     *)
(* puts a message under 'get_rules'.                                       *)
C27_SentinelOnlyFromGetRules ==
    \A i \in Instances :
        LET v == validators[i] IN
        (Validated(v) /\ HasKey(v.errors, "get_rules")) => Raised(get_rules(v))

(* C28: after any sequence of apply() calls on one RuleGroup, its          *)
(* get_error_message() gives a child's message only if the latest apply()  *)
(* returned false: after an apply() in which every child passed, also one  *)
(* that follows a failed apply() on a deferred target whose value has      *)
(* changed since, it gives the group's own custom or default message.      *)
C28_GroupMessageFollowsLatestApply ==
    (IsGroup(rule) /\ Returned(last) /\ last.val)
        => get_error_message(rule) = BaseGetErrorMessage(rule)

(* C29: negating a rule R yields a new rule and leaves R untouched: once   *)
(* ~R has been built, apply() on the original R still returns what it      *)
(* returned before, that is what a rule built with the same arguments and  *)
(* never negated returns.                                                  *)
C29_NegationLeavesOriginalUntouched ==
    (rule.inverted > 0 /\ Returned(last) /\ Returned(lastTwin)) => last = lastTwin

(* C30: RuleGroup.apply() either returns a boolean or raises               *)
(* InvalidRuleGroupException: any other exception, raised while the group  *)
(* resolves its target, instantiates a child from a well-formed entry or   *)
(* applies a child, becomes a false result and does not leave the group.   *)
(* So apply() of a group whose entries are all well formed returns.        *)
C30_GroupRaisesOnlyConfigurationError ==
    (/\ IsGroup(twin)
     /\ \A k \in 1..Len(twin.rules) : ~ Malformed(twin.rules[k])
     /\ lastTwin # NotCalled)
        => Returned(lastTwin)

====
